---- MODULE Spec2Model ----
(***************************************************************************)
(* Model of the Toolhouse client (src/index.js): one session object, the   *)
(* dual-mode result of send(), and the two fetch paths _fetchComplete and  *)
(* _fetchStream, cut at their await / yield points.  The callers are the   *)
(* async functions of Consumers: each holds one promise or iterator at a   *)
(* time, and all of them share the session.                                *)
(*                                                                         *)
(* Strings are sequences of tokens, so that template literals are          *)
(* concatenations and "" is << >>.  The run id, a header value and the     *)
(* HTTP method are single tokens; Null stands for JavaScript's null.       *)
(***************************************************************************)
EXTENDS Integers, Sequences, FiniteSets, TLC

\* ------------------------------------------------------------------ bounds
MaxChunks == 3          \* chunks in one body, for a single consumer
ConcurrentChunks == 1   \* chunks in one body, for concurrent consumers
ConfigChunks == 1       \* chunks in one body, for the constructor's inputs
LiveChunks == 2         \* chunks in one body, over the fair transport

\* ------------------------------------------------------ values of the model
Null == "<null>"
\* history only: the latest event of an invocation was a success response
\* that carried a run id other than the one set
Ignored == "<ignored>"
Empty == ""
RunIds == {"run-1", "run-2"}
\* what response.headers.get("x-toolhouse-run-id") can return
HeaderValues == {Null, Empty} \cup RunIds
\* what a caller passes to setRunId
SetValues == {Empty, "run-2"}
\* the same, for concurrent consumers: the conversation is never reset
ConcurrentSetValues == {"run-2"}
Statuses == {200, 300, 404}
FetchErrors == {<<"Network error">>}
ReadErrors == {<<"Read error">>}
\* full texts of a response without a streamable body
Texts == {<< >>, <<"a">>}
\* bytes: 0x61 is "a"; 0xC3 0xA9 is the two-byte UTF-8 encoding of "e-acute"
Chunks == {<< >>, <<"61">>, <<"C3">>, <<"A9">>}

\* the async functions that consume results
Consumers == {"A", "B"}

DefaultBaseUrl == <<"https://agents.toolhouse.ai">>
CustomBaseUrl == <<"https://custom-agents.toolhouse.ai">>
AgentIdArg == <<"test-agent-id">>
DefaultConfig == [k \in {"baseUrl"} |-> DefaultBaseUrl]

\* the strings that begin a URL with a scheme and a host
Origins == {DefaultBaseUrl[1], CustomBaseUrl[1]}

\* the agent identifiers callers pass: bare, or as the agent's full URL
AgentIdArgs ==
  {AgentIdArg, DefaultBaseUrl \o <<"/">> \o AgentIdArg,
   CustomBaseUrl \o <<"/">> \o AgentIdArg}

\* the values callers give the options
OptionValues ==
  [baseUrl |-> {DefaultBaseUrl, CustomBaseUrl}, env |-> {<<"production">>},
   toolhouse_id |-> {<<"your-toolhouse-id">>}, bundle |-> {<<"your-bundle-name">>}]
Options == {"env", "toolhouse_id", "bundle"}

\* the config objects with the options keys
ConfigsOver(keys) ==
  {c \in [keys -> UNION {OptionValues[k] : k \in keys}] :
     \A k \in keys : c[k] \in OptionValues[k]}

\* the config objects callers pass
Configs == UNION {ConfigsOver(keys) : keys \in SUBSET ({"baseUrl"} \cup Options)}

\* the constructor's second argument: omitted (<< >>) or a config object
ConfigArgs == {<< >>} \cup {<<c>> : c \in Configs}

\* ------------------------------------------------------------- JavaScript
Truthy(v) == v # Null /\ v # Empty

\* config.baseUrl etc.: a missing property reads as undefined
Prop(config, key) == IF key \in DOMAIN config THEN config[key] ELSE <<"undefined">>

IsPrefixAt(s, pat, i) ==
  /\ i + Len(pat) - 1 <= Len(s)
  /\ \A j \in 1..Len(pat) : s[i + j - 1] = pat[j]

\* String.prototype.replace(pat, ""): the first occurrence of pat is removed
Replace(s, pat) ==
  LET hits == {i \in 1..Len(s) : IsPrefixAt(s, pat, i)}
  IN IF Len(pat) = 0 \/ hits = {} THEN s
     ELSE LET i == CHOOSE k \in hits : \A m \in hits : k <= m
          IN SubSeq(s, 1, i - 1) \o SubSeq(s, i + Len(pat), Len(s))

\* the array literal [("env", "toolhouse_id", "bundle")]: the parentheses make
\* a comma expression, whose value is its last operand
ConfigKeys == <<"bundle">>

\* URL.searchParams.set(key, value) on a list of <<key, value>> pairs
SearchParamsSet(params, key, value) ==
  IF \E i \in 1..Len(params) : params[i][1] = key
  THEN [i \in 1..Len(params) |->
          IF params[i][1] = key THEN <<key, value>> ELSE params[i]]
  ELSE Append(params, <<key, value>>)

RECURSIVE SetAll(_, _, _)
SetAll(params, keys, config) ==
  IF keys = << >> THEN params
  ELSE SetAll(IF Head(keys) \in DOMAIN config
              THEN SearchParamsSet(params, Head(keys), config[Head(keys)])
              ELSE params,
              Tail(keys), config)

\* URL.toString(): the path, then ?k=v&k=v
RECURSIVE Query(_, _)
Query(params, first) ==
  IF params = << >> THEN << >>
  ELSE <<IF first THEN "?" ELSE "&", params[1][1], "=">> \o params[1][2]
       \o Query(Tail(params), FALSE)

UrlToString(u) == u.href \o Query(u.searchParams, TRUE)

\* new URL(s): a string without a scheme throws; the strings of this model
\* that parse are serialized as they were written
NewURL(s) ==
  IF s # << >> /\ s[1] \in Origins
  THEN [href |-> s, searchParams |-> << >>]
  ELSE [threw |-> <<"TypeError: Invalid URL">>]

IsURL(u) == "href" \in DOMAIN u

\* the constructor: a session record.  configArg is the second argument, whose
\* default applies when it is omitted.  When new URL throws, no session
\* exists: the record keeps the exception in place of the URL.
Toolhouse(agentIdArg, configArg) ==
  LET config == IF configArg = << >> THEN DefaultConfig ELSE configArg[1]
      base == Prop(config, "baseUrl")
      u == NewURL(base \o <<"/">> \o agentIdArg)
  IN IF IsURL(u)
     THEN [agentId |-> Replace(agentIdArg, base),
           baseUrl |-> base,
           url |-> [u EXCEPT !.searchParams = SetAll(@, ConfigKeys, config)],
           runId |-> Null]
     ELSE [agentId |-> agentIdArg, baseUrl |-> base, url |-> u, runId |-> Null]


\* ------------------------------------------------------------------ state
VARIABLES
  agentId,    \* this.agentId
  baseUrl,    \* this.baseUrl
  url,        \* this.url
  runId,      \* this.runId
  result,     \* the object the latest send() returned: << >> or <<object>>
  calls,      \* per consumer, its _fetchComplete / _fetchStream invocation
  env         \* the environment: chunks is the most chunks the transport puts
              \* in one body, ids are the values callers pass to setRunId, and
              \* agentIdArg and configArg are the constructor's arguments

vars == <<agentId, baseUrl, url, runId, result, calls, env>>

\* One invocation of _fetchComplete (mode "complete") or _fetchStream (mode
\* "stream").  pc is the await or yield it is suspended at:
\*   complete: fetch -> text | read -> resolved | rejected
\*   stream:   start -> fetch -> text | read -> yieldText | yieldChunk
\*             -> done | returned | thrown
\* Optional values are sequences of length at most one.
NewCall(mode, pc) ==
  [mode |-> mode, pc |-> pc,
   url |-> << >>,            \* the arguments url and method
   method |-> "",
   atSend |-> Null,          \* history: this.runId when send() was called
   req |-> << >>,            \* the fetch(url, {method}) issued
   status |-> 0,             \* response.status, 0 before the response
   expect |-> Null,          \* history: the run id of a success response that
                             \* found this.runId unset, or Ignored
   acquired |-> 0,           \* calls of response.body.getReader()
   released |-> 0,           \* calls of reader.releaseLock()
   recv |-> << >>,           \* history: the chunks reader.read() delivered
   pending |-> FALSE,        \* decoder: a lead byte waits for its continuation
   completeText |-> << >>,   \* the local completeText
   text |-> << >>,           \* history: what response.text() resolved with
   yielded |-> << >>,        \* the fragments delivered to the consumer
   value |-> << >>,          \* what the promise resolved with
   cause |-> << >>,          \* history: the message of the underlying error
   error |-> << >>]          \* the message of the error thrown to the caller

Idle == NewCall("none", "idle")

Settled == {"resolved", "rejected", "done", "returned", "thrown"}
Yielding == {"yieldText", "yieldChunk"}

\* The continuation of a consumer whose promise settled or whose iterator
\* ended is a microtask: it runs before the event loop handles anything else.
NoneSettled == \A k \in DOMAIN calls : calls[k].pc \notin Settled

\* A transport event is a task of its own: the event loop handles it when no
\* consumer has a continuation to run.
EventLoopFree == \A k \in DOMAIN calls : calls[k].pc \notin Settled \cup Yielding

\* The events of two bodies touch nothing in common (each changes only its own
\* invocation), so their order is immaterial: the transport delivers the
\* chunks of one body at a time.  Responses, with their headers, still arrive
\* in any order and between any two chunks.
BodyFree(k) ==
  \A j \in DOMAIN calls \ {k} : calls[j].pc \in {"read", "yieldChunk"} => calls[j].recv = << >>

\* new Toolhouse(agentIdArg, configArg), used by the consumers cs, who pass
\* the values ids to setRunId, over a transport whose bodies have at most n
\* chunks
Construct(agentIdArg, configArg, cs, n, ids) ==
  LET s == Toolhouse(agentIdArg, configArg)
  IN /\ agentId = s.agentId
     /\ baseUrl = s.baseUrl
     /\ url = s.url
     /\ runId = s.runId
     /\ result = << >>
     /\ calls = [k \in cs |-> Idle]
     /\ env = [chunks |-> n, ids |-> ids,
               agentIdArg |-> agentIdArg, configArg |-> configArg]

\* new Toolhouse(AgentIdArg)
InitWith(cs, n, ids) == Construct(AgentIdArg, << >>, cs, n, ids)

\* the constructor threw: there is no session to call
Constructed == IsURL(url)

Init == InitWith(Consumers, ConcurrentChunks, ConcurrentSetValues)

\* a single consumer
InitOne == InitWith({"A"}, MaxChunks, SetValues)

\* a single consumer of a session constructed with any of the arguments
InitNew ==
  \E agentIdArg \in AgentIdArgs, configArg \in ConfigArgs :
    Construct(agentIdArg, configArg, {"A"}, ConfigChunks, {})

\* ------------------------------------------------------------ the session
RECURSIVE CopyParams(_, _)
CopyParams(from, to) ==
  IF from = << >> THEN to
  ELSE CopyParams(Tail(from), SearchParamsSet(to, from[1][1], from[1][2]))

\* faulty: tests this.runId !== null, so that "" counts as a conversation
getRequestConfigNullCheck ==
  IF runId # Null
  THEN [url |-> baseUrl \o <<"/">> \o agentId \o <<"/", runId>>, method |-> "PUT"]
  ELSE [url |-> UrlToString(url), method |-> "POST"]

\* faulty: the continue-mode URL lacks the run id
getRequestConfigNoId ==
  IF Truthy(runId)
  THEN [url |-> baseUrl \o <<"/">> \o agentId, method |-> "PUT"]
  ELSE [url |-> UrlToString(url), method |-> "POST"]

getRequestConfig ==
  IF Truthy(runId)
  THEN LET putUrl == [href |-> baseUrl \o <<"/">> \o agentId \o <<"/", runId>>,
                      searchParams |-> << >>]
       IN [url |-> UrlToString([putUrl EXCEPT
                     !.searchParams = CopyParams(url.searchParams, @)]),
           method |-> "PUT"]
  ELSE [url |-> UrlToString(url), method |-> "POST"]

\* faulty: an id that is set is kept
SetRunIdIfUnset(id) ==
  /\ NoneSettled
  /\ id \in env.ids
  /\ runId' = IF Truthy(runId) THEN runId ELSE id
  /\ calls' = [k \in DOMAIN calls |-> [calls[k] EXCEPT !.expect = Null]]
  /\ UNCHANGED <<agentId, baseUrl, url, result, env>>

\* setRunId(id).  The history field expect is cleared: the caller has
\* overridden whatever a call captured.
SetRunId(id) ==
  /\ Constructed /\ NoneSettled
  /\ id \in env.ids
  /\ runId' = id
  /\ calls' = [k \in DOMAIN calls |-> [calls[k] EXCEPT !.expect = Null]]
  /\ UNCHANGED <<agentId, baseUrl, url, result, env>>

\* send(): derives the request and returns the result object; no I/O.
\* atSend and consumed are history.
Send ==
  /\ Constructed /\ NoneSettled
  /\ result' = <<[url |-> getRequestConfig.url, method |-> getRequestConfig.method,
                  atSend |-> runId, consumed |-> FALSE]>>
  /\ UNCHANGED <<agentId, baseUrl, url, runId, calls, env>>

\* faulty: the request is derived when the result is consumed
InvokeLate(mode, pc) ==
  [NewCall(mode, pc) EXCEPT !.url = getRequestConfig.url,
                            !.method = getRequestConfig.method,
                            !.atSend = result[1].atSend]

Invoke(mode, pc) ==
  [NewCall(mode, pc) EXCEPT !.url = result[1].url, !.method = result[1].method,
                            !.atSend = result[1].atSend]

\* faulty: the call of fetch is skipped, as if an earlier response were reused
fetchCached(call) == call

fetch(call) == [call EXCEPT !.req = <<[url |-> call.url, method |-> call.method]>>]

\* result.then(resolve, reject): _fetchComplete runs up to its first await
Then(k) ==
  /\ NoneSettled
  /\ result # << >> /\ calls[k].pc = "idle"
  /\ calls' = [calls EXCEPT ![k] = [fetch(Invoke("complete", "fetch")) EXCEPT
                                      !.pc = "fetch"]]
  /\ result' = <<[result[1] EXCEPT !.consumed = TRUE]>>
  /\ UNCHANGED <<agentId, baseUrl, url, runId, env>>

\* faulty: a plain function that calls fetch before it returns the iterator
AsyncIteratorEager(k) ==
  /\ NoneSettled
  /\ result # << >> /\ calls[k].pc = "idle"
  /\ calls' = [calls EXCEPT ![k] = fetch(Invoke("stream", "start"))]
  /\ result' = <<[result[1] EXCEPT !.consumed = TRUE]>>
  /\ UNCHANGED <<agentId, baseUrl, url, runId, env>>

\* result[Symbol.asyncIterator](): a suspended generator, nothing has run
AsyncIterator(k) ==
  /\ NoneSettled
  /\ result # << >> /\ calls[k].pc = "idle"
  /\ calls' = [calls EXCEPT ![k] = Invoke("stream", "start")]
  /\ result' = <<[result[1] EXCEPT !.consumed = TRUE]>>
  /\ UNCHANGED <<agentId, baseUrl, url, runId, env>>

\* the consumer's continuation has the outcome and lets go of the promise or
\* the iterator
Continue(k) ==
  /\ calls[k].pc \in Settled
  /\ calls' = [calls EXCEPT ![k] = Idle]
  /\ UNCHANGED <<agentId, baseUrl, url, runId, result, env>>

\* -------------------------------------------------------------- transport
\* response.ok
ok(status) == status >= 200 /\ status < 300

\* TextDecoder.decode(value, {stream: true}) for UTF-8, one byte at a time: a
\* lead byte is held back until its continuation byte arrives, and a byte that
\* cannot continue or start a character decodes to U+FFFD
DecodeByte(d, b) ==
  IF d.pending
  THEN IF b = "A9" THEN [out |-> Append(d.out, "e-acute"), pending |-> FALSE]
       ELSE IF b = "C3" THEN [out |-> Append(d.out, "U+FFFD"), pending |-> TRUE]
       ELSE [out |-> d.out \o <<"U+FFFD", "a">>, pending |-> FALSE]
  ELSE IF b = "61" THEN [out |-> Append(d.out, "a"), pending |-> FALSE]
       ELSE IF b = "C3" THEN [out |-> d.out, pending |-> TRUE]
       ELSE [out |-> Append(d.out, "U+FFFD"), pending |-> FALSE]

RECURSIVE DecodeFrom(_, _)
DecodeFrom(d, bytes) ==
  IF bytes = << >> THEN d ELSE DecodeFrom(DecodeByte(d, Head(bytes)), Tail(bytes))

\* the text of one chunk, and the decoder's state after it
decode(pending, value) == DecodeFrom([out |-> << >>, pending |-> pending], value)

\* what awaiting fetch() can give: a rejection, or a response
FetchOutcomes ==
  [kind : {"rejects"}, message : FetchErrors]
  \cup [kind : {"response"}, status : Statuses, header : HeaderValues,
        hasBody : BOOLEAN]

\* what awaiting response.text() can give
TextOutcomes ==
  [kind : {"rejects"}, message : ReadErrors] \cup [kind : {"text"}, text : Texts]

\* what awaiting reader.read() can give
ReadOutcomes ==
  [kind : {"rejects"}, message : ReadErrors] \cup [kind : {"done"}]
  \cup [kind : {"value"}, value : Chunks]

\* a body has at most env.chunks chunks
Deliverable(call, o) == o.kind = "value" => Len(call.recv) < env.chunks

\* history: the run id this response is to establish
Expected(o) ==
  IF o.status \in 200..299 /\ o.header \in RunIds
  THEN IF runId \in {Null, Empty} THEN o.header
       ELSE IF runId # o.header THEN Ignored ELSE Null
  ELSE Null

\* history: the invocation as its next event finds it
Noted(call) == IF call.expect = Ignored THEN [call EXCEPT !.expect = Null] ELSE call

\* ---------------------------------------------------------- _fetchComplete
\* faulty: the message leaves the status code out
CompleteHttpErrorNoStatus(status) == <<"HTTP error! status: ">>

CompleteHttpError(status) == <<"HTTP error! status: ", ToString(status)>>

\* faulty: the error is wrapped by the inner and by the outer handler
CompleteCatchTwice(message) == <<"Request failed: ", "Request failed: ">> \o message

CompleteCatch(message) == <<"Request failed: ">> \o message

\* faulty: the header always wins
CompleteStoreRunIdOverwrite(current, header) ==
  IF Truthy(header) THEN header ELSE current

\* faulty: only null counts as unset
CompleteStoreRunIdIfNull(current, header) ==
  IF Truthy(header) /\ current = Null THEN header ELSE current

CompleteStoreRunId(current, header) ==
  IF Truthy(header) /\ ~Truthy(current) THEN header ELSE current

\* faulty: completeText = chunk
CompleteAppendOverwrite(call, chunk) == [call EXCEPT !.completeText = chunk]

\* completeText += chunk
CompleteAppend(call, chunk) == [call EXCEPT !.completeText = call.completeText \o chunk]

\* faulty: no finally block
CompleteFinallyMissing(call) == call

CompleteFinally(call) == [call EXCEPT !.released = call.released + 1]

CompleteThrow(call, message) ==
  [call EXCEPT !.pc = "rejected", !.cause = message, !.error = CompleteCatch(message)]

\* faulty: the header is stored before the status is checked
FetchCompleteFetchedStoreFirst(k, o) ==
  /\ EventLoopFree
  /\ calls[k].mode = "complete" /\ calls[k].pc = "fetch"
  /\ IF o.kind = "rejects"
     THEN /\ calls' = [calls EXCEPT ![k] = CompleteThrow(calls[k], o.message)]
          /\ runId' = runId
     ELSE IF ~ok(o.status)
     THEN /\ calls' = [calls EXCEPT ![k] =
                 CompleteThrow([calls[k] EXCEPT !.status = o.status],
                               CompleteHttpError(o.status))]
          /\ runId' = CompleteStoreRunId(runId, o.header)
     ELSE /\ runId' = CompleteStoreRunId(runId, o.header)
          /\ calls' = [calls EXCEPT ![k] =
                 [calls[k] EXCEPT !.status = o.status, !.expect = Expected(o),
                                  !.acquired = IF o.hasBody THEN 1 ELSE 0,
                                  !.pc = IF o.hasBody THEN "read" ELSE "text"]]
  /\ UNCHANGED <<agentId, baseUrl, url, result, env>>

\* await fetch(...) settles; the code runs on to the next await
FetchCompleteFetched(k, o) ==
  /\ EventLoopFree
  /\ calls[k].mode = "complete" /\ calls[k].pc = "fetch"
  /\ IF o.kind = "rejects"
     THEN /\ calls' = [calls EXCEPT ![k] = CompleteThrow(calls[k], o.message)]
          /\ runId' = runId
     ELSE IF ~ok(o.status)
     THEN /\ calls' = [calls EXCEPT ![k] =
                 CompleteThrow([calls[k] EXCEPT !.status = o.status],
                               CompleteHttpError(o.status))]
          /\ runId' = runId
     ELSE /\ runId' = CompleteStoreRunId(runId, o.header)
          /\ calls' = [calls EXCEPT ![k] =
                 [calls[k] EXCEPT !.status = o.status, !.expect = Expected(o),
                                  !.acquired = IF o.hasBody THEN 1 ELSE 0,
                                  !.pc = IF o.hasBody THEN "read" ELSE "text"]]
  /\ UNCHANGED <<agentId, baseUrl, url, result, env>>

\* faulty: the promise of response.text() is dropped and the continuation
\* waits for one that never settles
FetchCompleteTextLost(k, o) ==
  /\ EventLoopFree /\ BodyFree(k)
  /\ calls[k].mode = "complete" /\ calls[k].pc = "text"
  /\ UNCHANGED vars

\* await response.text() settles
FetchCompleteText(k, o) ==
  /\ EventLoopFree /\ BodyFree(k)
  /\ calls[k].mode = "complete" /\ calls[k].pc = "text"
  /\ calls' = [calls EXCEPT ![k] =
       IF o.kind = "rejects" THEN CompleteThrow(Noted(calls[k]), o.message)
       ELSE [Noted(calls[k]) EXCEPT !.text = <<o.text>>, !.value = <<o.text>>,
                                    !.pc = "resolved"]]
  /\ UNCHANGED <<agentId, baseUrl, url, runId, result, env>>

\* await reader.read() settles, inside try { while (true) ... } finally
FetchCompleteRead(k, o) ==
  /\ EventLoopFree /\ BodyFree(k)
  /\ calls[k].mode = "complete" /\ calls[k].pc = "read"
  /\ Deliverable(calls[k], o)
  /\ LET call == Noted(calls[k])
         d == decode(call.pending, o.value)
     IN calls' = [calls EXCEPT ![k] =
          IF o.kind = "rejects" THEN CompleteThrow(CompleteFinally(call), o.message)
          ELSE IF o.kind = "done"
          THEN [CompleteFinally(call) EXCEPT !.value = <<call.completeText>>,
                                             !.pc = "resolved"]
          ELSE CompleteAppend([call EXCEPT !.recv = Append(call.recv, o.value),
                                           !.pending = d.pending],
                              d.out)]
  /\ UNCHANGED <<agentId, baseUrl, url, runId, result, env>>

\* ------------------------------------------------------------ _fetchStream
StreamHttpError(status) == <<"HTTP error! status: ", ToString(status)>>

StreamCatch(message) == <<"Request failed: ">> \o message

\* faulty: the streaming path forgets the header
StreamStoreRunIdNever(current, header) == current

\* faulty: the header of the latest response wins
StreamStoreRunIdLast(current, header) ==
  IF Truthy(header) THEN header ELSE current

StreamStoreRunId(current, header) ==
  IF Truthy(header) /\ ~Truthy(current) THEN header ELSE current

\* faulty: no finally block
StreamFinallyMissing(call) == call

StreamFinally(call) == [call EXCEPT !.released = call.released + 1]

StreamThrow(call, message) ==
  [call EXCEPT !.pc = "thrown", !.cause = message, !.error = StreamCatch(message)]

\* faulty: yield chunk, without the test
StreamYieldChunkAlways(call, chunk) ==
  [call EXCEPT !.yielded = Append(call.yielded, chunk), !.pc = "yieldChunk"]

\* if (chunk) { yield chunk; }
StreamYieldChunk(call, chunk) ==
  IF chunk # << >>
  THEN [call EXCEPT !.yielded = Append(call.yielded, chunk), !.pc = "yieldChunk"]
  ELSE call

\* faulty: no return after yield text, so that the code goes on to
\* response.body.getReader() with a null body
FetchStreamNextNoReturn(k) ==
  /\ NoneSettled
  /\ calls[k].mode = "stream"
  /\ calls[k].pc \in {"start", "yieldText", "yieldChunk"}
  /\ calls' = [calls EXCEPT ![k] =
       IF calls[k].pc = "start" THEN [fetch(calls[k]) EXCEPT !.pc = "fetch"]
       ELSE IF calls[k].pc = "yieldText"
       THEN StreamThrow(calls[k], <<"Cannot read properties of null">>)
       ELSE [calls[k] EXCEPT !.pc = "read"]]
  /\ UNCHANGED <<agentId, baseUrl, url, runId, result, env>>

\* the consumer advances the iterator: next()
FetchStreamNext(k) ==
  /\ NoneSettled
  /\ calls[k].mode = "stream"
  /\ calls[k].pc \in {"start", "yieldText", "yieldChunk"}
  /\ calls' = [calls EXCEPT ![k] =
       IF calls[k].pc = "start" THEN [fetch(calls[k]) EXCEPT !.pc = "fetch"]
       ELSE IF calls[k].pc = "yieldText" THEN [calls[k] EXCEPT !.pc = "done"]
       ELSE [calls[k] EXCEPT !.pc = "read"]]
  /\ UNCHANGED <<agentId, baseUrl, url, runId, result, env>>

\* the consumer abandons the iterator: return(), as a break in for await does
FetchStreamReturn(k) ==
  /\ NoneSettled
  /\ calls[k].mode = "stream"
  /\ calls[k].pc \in {"start", "yieldText", "yieldChunk"}
  /\ calls' = [calls EXCEPT ![k] =
       IF calls[k].pc = "yieldChunk"
       THEN [StreamFinally(calls[k]) EXCEPT !.pc = "returned"]
       ELSE [calls[k] EXCEPT !.pc = "returned"]]
  /\ UNCHANGED <<agentId, baseUrl, url, runId, result, env>>

\* faulty: a failed request forgets the conversation
FetchStreamFetchedReset(k, o) ==
  /\ EventLoopFree
  /\ calls[k].mode = "stream" /\ calls[k].pc = "fetch"
  /\ IF o.kind = "rejects"
     THEN /\ calls' = [calls EXCEPT ![k] = StreamThrow(calls[k], o.message)]
          /\ runId' = Null
     ELSE IF ~ok(o.status)
     THEN /\ calls' = [calls EXCEPT ![k] =
                 StreamThrow([calls[k] EXCEPT !.status = o.status],
                             StreamHttpError(o.status))]
          /\ runId' = Null
     ELSE /\ runId' = StreamStoreRunId(runId, o.header)
          /\ calls' = [calls EXCEPT ![k] =
                 [calls[k] EXCEPT !.status = o.status, !.expect = Expected(o),
                                  !.acquired = IF o.hasBody THEN 1 ELSE 0,
                                  !.pc = IF o.hasBody THEN "read" ELSE "text"]]
  /\ UNCHANGED <<agentId, baseUrl, url, result, env>>

\* await fetch(...) settles; the code runs on to the next await
FetchStreamFetched(k, o) ==
  /\ EventLoopFree
  /\ calls[k].mode = "stream" /\ calls[k].pc = "fetch"
  /\ IF o.kind = "rejects"
     THEN /\ calls' = [calls EXCEPT ![k] = StreamThrow(calls[k], o.message)]
          /\ runId' = runId
     ELSE IF ~ok(o.status)
     THEN /\ calls' = [calls EXCEPT ![k] =
                 StreamThrow([calls[k] EXCEPT !.status = o.status],
                             StreamHttpError(o.status))]
          /\ runId' = runId
     ELSE /\ runId' = StreamStoreRunId(runId, o.header)
          /\ calls' = [calls EXCEPT ![k] =
                 [calls[k] EXCEPT !.status = o.status, !.expect = Expected(o),
                                  !.acquired = IF o.hasBody THEN 1 ELSE 0,
                                  !.pc = IF o.hasBody THEN "read" ELSE "text"]]
  /\ UNCHANGED <<agentId, baseUrl, url, result, env>>

\* await response.text() settles; the text is yielded
FetchStreamText(k, o) ==
  /\ EventLoopFree /\ BodyFree(k)
  /\ calls[k].mode = "stream" /\ calls[k].pc = "text"
  /\ calls' = [calls EXCEPT ![k] =
       IF o.kind = "rejects" THEN StreamThrow(Noted(calls[k]), o.message)
       ELSE [Noted(calls[k]) EXCEPT !.text = <<o.text>>,
                                    !.yielded = Append(calls[k].yielded, o.text),
                                    !.pc = "yieldText"]]
  /\ UNCHANGED <<agentId, baseUrl, url, runId, result, env>>

\* await reader.read() settles, inside try { while (true) ... } finally
FetchStreamRead(k, o) ==
  /\ EventLoopFree /\ BodyFree(k)
  /\ calls[k].mode = "stream" /\ calls[k].pc = "read"
  /\ Deliverable(calls[k], o)
  /\ LET call == Noted(calls[k])
         d == decode(call.pending, o.value)
     IN calls' = [calls EXCEPT ![k] =
          IF o.kind = "rejects" THEN StreamThrow(StreamFinally(call), o.message)
          ELSE IF o.kind = "done" THEN [StreamFinally(call) EXCEPT !.pc = "done"]
          ELSE StreamYieldChunk([call EXCEPT !.recv = Append(call.recv, o.value),
                                             !.pending = d.pending],
                                d.out)]
  /\ UNCHANGED <<agentId, baseUrl, url, runId, result, env>>

\* ------------------------------------------------------- the specification
Next ==
  \/ \E id \in SetValues : SetRunId(id)
  \/ Send
  \/ \E k \in DOMAIN calls : Then(k)
  \/ \E k \in DOMAIN calls : AsyncIterator(k)
  \/ \E k \in DOMAIN calls : Continue(k)
  \/ \E k \in DOMAIN calls, o \in FetchOutcomes : FetchCompleteFetched(k, o)
  \/ \E k \in DOMAIN calls, o \in TextOutcomes : FetchCompleteText(k, o)
  \/ \E k \in DOMAIN calls, o \in ReadOutcomes : FetchCompleteRead(k, o)
  \/ \E k \in DOMAIN calls : FetchStreamNext(k)
  \/ \E k \in DOMAIN calls : FetchStreamReturn(k)
  \/ \E k \in DOMAIN calls, o \in FetchOutcomes : FetchStreamFetched(k, o)
  \/ \E k \in DOMAIN calls, o \in TextOutcomes : FetchStreamText(k, o)
  \/ \E k \in DOMAIN calls, o \in ReadOutcomes : FetchStreamRead(k, o)

Spec == Init /\ [][Next]_vars

SpecOne == InitOne /\ [][Next]_vars

\* A sequential caller: it calls send(), consumes the result once and to its
\* end, and only then calls send() again; it never calls setRunId.
SeqSend ==
  /\ \A k \in DOMAIN calls : calls[k].pc = "idle"
  /\ result # << >> => result[1].consumed
  /\ Send

SeqThen(k) == result # << >> /\ ~result[1].consumed /\ Then(k)

SeqAsyncIterator(k) == result # << >> /\ ~result[1].consumed /\ AsyncIterator(k)

NextSeq ==
  \/ SeqSend
  \/ \E k \in DOMAIN calls : SeqThen(k)
  \/ \E k \in DOMAIN calls : SeqAsyncIterator(k)
  \/ \E k \in DOMAIN calls : Continue(k)
  \/ \E k \in DOMAIN calls, o \in FetchOutcomes : FetchCompleteFetched(k, o)
  \/ \E k \in DOMAIN calls, o \in TextOutcomes : FetchCompleteText(k, o)
  \/ \E k \in DOMAIN calls, o \in ReadOutcomes : FetchCompleteRead(k, o)
  \/ \E k \in DOMAIN calls : FetchStreamNext(k)
  \/ \E k \in DOMAIN calls : FetchStreamReturn(k)
  \/ \E k \in DOMAIN calls, o \in FetchOutcomes : FetchStreamFetched(k, o)
  \/ \E k \in DOMAIN calls, o \in TextOutcomes : FetchStreamText(k, o)
  \/ \E k \in DOMAIN calls, o \in ReadOutcomes : FetchStreamRead(k, o)

SpecSeq == InitOne /\ [][NextSeq]_vars

\* the same caller, on a session constructed with any of the arguments
SpecNew == InitNew /\ [][NextSeq]_vars

\* the consumer of the fair transport
LiveConsumers == {"A"}

\* The transport is fair: the promise of fetch, of response.text() and of
\* every reader.read() settles (a body has at most env.chunks chunks before
\* it ends or fails), and the consumer of a stream keeps advancing it.
Fairness ==
  \A k \in LiveConsumers :
    /\ WF_vars(\E o \in FetchOutcomes : FetchCompleteFetched(k, o))
    /\ WF_vars(\E o \in TextOutcomes : FetchCompleteText(k, o))
    /\ WF_vars(\E o \in ReadOutcomes : FetchCompleteRead(k, o))
    /\ WF_vars(\E o \in FetchOutcomes : FetchStreamFetched(k, o))
    /\ WF_vars(\E o \in TextOutcomes : FetchStreamText(k, o))
    /\ WF_vars(\E o \in ReadOutcomes : FetchStreamRead(k, o))
    /\ WF_vars(FetchStreamNext(k))

SpecLive == InitWith(LiveConsumers, LiveChunks, SetValues) /\ [][Next]_vars /\ Fairness


\* ------------------------------------------------------------- properties
CreateUrl == DefaultBaseUrl \o <<"/">> \o AgentIdArg
ContinueUrl(id) == CreateUrl \o <<"/", id>>
CreateRequest == [url |-> CreateUrl, method |-> "POST"]
ContinueRequest(id) == [url |-> ContinueUrl(id), method |-> "PUT"]

Unset(id) == id \in {Null, Empty}
Issued(k) == calls[k].req # << >>
Request(k) == calls[k].req[1]
Success(k) == calls[k].status \in 200..299
Failed(k) == calls[k].pc \in {"rejected", "thrown"}

\* C1, as stated: the first send issues a create-mode request and every later
\* send a continue-mode request to {baseUrl}/{agentId}/{conversationId}.  A
\* send is a later one when its result is still unconsumed while the success
\* response of an earlier send has arrived; the request of a send is the one
\* its result carries.
C1_FirstPostThenPut ==
  \A k \in DOMAIN calls :
    (Success(k) /\ result # << >> /\ ~result[1].consumed)
      => /\ result[1].method = "PUT"
         /\ result[1].url = ContinueUrl(runId)

\* C1, amended: every request a send issues is the one fixed by the
\* conversation id at the time of the send: create-mode (POST) to
\* {baseUrl}/{agentId} when the id was unset (null or empty), as it is for the
\* first send of a fresh session, and continue-mode (PUT) to
\* {baseUrl}/{agentId}/{id} when it was set.
C1_RequestFollowsRunId ==
  /\ \A k \in DOMAIN calls :
       Issued(k) => Request(k) = IF Unset(calls[k].atSend) THEN CreateRequest
                                 ELSE ContinueRequest(calls[k].atSend)
  /\ result # << >> =>
       [url |-> result[1].url, method |-> result[1].method]
         = IF Unset(result[1].atSend) THEN CreateRequest
           ELSE ContinueRequest(result[1].atSend)

\* a continue-mode request to a conversation the server established, and the
\* response to it
C1_Witness ==
  \E k \in DOMAIN calls :
    /\ Issued(k) /\ Request(k) = ContinueRequest("run-1")
    /\ calls[k].atSend = "run-1" /\ Success(k)

\* C2: when a success response carries a non-empty run id X and finds the
\* conversation id unset, getRunId() is X once the promise has resolved or the
\* sequence has completed, in both modes (expect is X from that response on,
\* until a caller overrides it with setRunId).
C2_RunIdStored ==
  \A k \in DOMAIN calls :
    (calls[k].pc \in {"resolved", "done"} /\ calls[k].expect \in RunIds)
      => runId = calls[k].expect

C2_Witness ==
  \E k \in DOMAIN calls :
    /\ calls[k].mode = "stream" /\ calls[k].pc = "done"
    /\ calls[k].expect \in RunIds /\ calls[k].yielded # << >>

\* C3: the conversation id changes only by setRunId, or from unset to the run
\* id of a success response that has just arrived; once set, no response
\* changes it.
C3_RunIdChanges ==
  [][runId' # runId =>
       \/ \E id \in SetValues : SetRunId(id)
       \/ /\ Unset(runId)
          /\ \E k \in DOMAIN calls, o \in FetchOutcomes :
               /\ o.kind = "response" /\ o.status \in 200..299
               /\ o.header \in RunIds /\ runId' = o.header
               /\ FetchCompleteFetched(k, o) \/ FetchStreamFetched(k, o)]_vars

\* a success response has just carried a run id other than the one set
C3_Witness ==
  \E k \in DOMAIN calls :
    calls[k].expect = Ignored /\ runId \in RunIds /\ Success(k)

\* C4: for a sequential caller, the request whose response establishes the
\* conversation X and every request before it are create-mode, and every
\* request after it is continue-mode to {baseUrl}/{agentId}/X, for the same X.
C4_Sequential ==
  /\ [](\A k \in DOMAIN calls :
          Issued(k) => Request(k) = IF calls[k].expect \in RunIds \/ Unset(runId)
                                    THEN CreateRequest
                                    ELSE ContinueRequest(runId))
  /\ [][~Unset(runId) => runId' = runId]_vars

\* the response to a continue-mode request has arrived
C4_Witness ==
  \E k \in DOMAIN calls :
    /\ Issued(k) /\ Request(k) = ContinueRequest(runId)
    /\ Success(k) /\ calls[k].expect = Null /\ runId \in RunIds

\* C5: a response whose status is outside [200, 300) fails the call in both
\* modes (the promise rejects, the iterator's advancement throws) with the
\* message "Request failed: HTTP error! status: <code>", and neither a text
\* nor a fragment is delivered.
C5_HttpError ==
  \A k \in DOMAIN calls :
    (calls[k].status # 0 /\ ~Success(k))
      => /\ calls[k].pc = IF calls[k].mode = "complete" THEN "rejected" ELSE "thrown"
         /\ calls[k].error
              = <<"Request failed: ", "HTTP error! status: ", ToString(calls[k].status)>>
         /\ calls[k].yielded = << >>
         /\ calls[k].value = << >>

C5_Witness ==
  \E k \in DOMAIN calls :
    calls[k].mode = "stream" /\ calls[k].pc = "thrown" /\ calls[k].status = 404

\* C6: when fetch rejects with message M (no response arrives), the call fails
\* in both modes with the message "Request failed: M", M being wrapped once.
C6_TransportError ==
  \A k \in DOMAIN calls :
    (Failed(k) /\ calls[k].status = 0)
      => /\ calls[k].cause \in FetchErrors
         /\ calls[k].error = <<"Request failed: ">> \o calls[k].cause
         /\ Len(SelectSeq(calls[k].error, LAMBDA t : t = "Request failed: ")) = 1
         /\ calls[k].pc = IF calls[k].mode = "complete" THEN "rejected" ELSE "thrown"

C6_Witness ==
  \E k \in DOMAIN calls :
    /\ calls[k].mode = "stream" /\ calls[k].pc = "thrown"
    /\ calls[k].status = 0 /\ calls[k].cause = <<"Network error">>

RECURSIVE Concat(_)
Concat(seqs) == IF seqs = << >> THEN << >> ELSE Head(seqs) \o Concat(Tail(seqs))

\* the text of a body: its bytes, decoded in one go
BodyText(chunks) == decode(FALSE, Concat(chunks)).out

\* C7: for a success response and the chunks it delivers, the fragments of
\* streaming mode, concatenated in order, and the string of full-response mode
\* are the same function of the response: the text of the body's chunks, or
\* the response's text when it has no streamable body.
C7_Equivalence ==
  \A k \in DOMAIN calls :
    /\ (calls[k].pc = "resolved" /\ calls[k].acquired = 1)
         => calls[k].value = <<BodyText(calls[k].recv)>>
    /\ (calls[k].pc = "done" /\ calls[k].acquired = 1)
         => Concat(calls[k].yielded) = BodyText(calls[k].recv)
    /\ (calls[k].pc = "resolved" /\ calls[k].acquired = 0)
         => calls[k].value = calls[k].text
    /\ (calls[k].pc = "done" /\ calls[k].acquired = 0)
         => <<Concat(calls[k].yielded)>> = calls[k].text

\* a stream of three chunks, one of them without text, has completed
C7_Witness ==
  \E k \in DOMAIN calls :
    /\ calls[k].mode = "stream" /\ calls[k].pc = "done"
    /\ Len(calls[k].recv) = 3 /\ Len(calls[k].yielded) = 2

\* the texts of the chunks of a body, each decoded as it arrives
RECURSIVE ChunkTexts(_, _)
ChunkTexts(pending, chunks) ==
  IF chunks = << >> THEN << >>
  ELSE LET d == decode(pending, Head(chunks))
       IN <<d.out>> \o ChunkTexts(d.pending, Tail(chunks))

NonEmpty(texts) == SelectSeq(texts, LAMBDA t : t # << >>)

\* C8: for a response with a streamable body, the fragments streaming mode has
\* yielded are exactly the texts of the chunks received that are not empty, in
\* the order received; no empty fragment is yielded.
C8_SkipsEmpty ==
  \A k \in DOMAIN calls :
    (calls[k].mode = "stream" /\ calls[k].acquired = 1)
      => /\ calls[k].yielded = NonEmpty(ChunkTexts(FALSE, calls[k].recv))
         /\ \A i \in DOMAIN calls[k].yielded : calls[k].yielded[i] # << >>

\* the second of three chunks had no text, the first and the third are yielded
C8_Witness ==
  \E k \in DOMAIN calls :
    /\ calls[k].mode = "stream" /\ calls[k].pc = "yieldChunk"
    /\ Len(calls[k].recv) = 3 /\ Len(calls[k].yielded) = 2
    /\ ChunkTexts(FALSE, calls[k].recv)[2] = << >>

\* C9: when a success response has no streamable body, streaming mode yields
\* one fragment, the response's text, and then ends; full-response mode
\* resolves with that text; no reader is acquired (nor released).
C9_NoBody ==
  \A k \in DOMAIN calls :
    (Success(k) /\ calls[k].acquired = 0 /\ calls[k].text # << >>)
      => /\ calls[k].released = 0
         /\ calls[k].mode = "complete"
              => calls[k].pc = "resolved" /\ calls[k].value = calls[k].text
         /\ calls[k].mode = "stream"
              => /\ calls[k].yielded = calls[k].text
                 /\ calls[k].pc \in {"yieldText", "done", "returned"}

\* the stream of a response without a body has ended after its one fragment
C9_Witness ==
  \E k \in DOMAIN calls :
    /\ calls[k].mode = "stream" /\ calls[k].pc = "done"
    /\ calls[k].acquired = 0 /\ calls[k].yielded = << <<"a">> >>

\* C10: in both modes, when a reader has been acquired and a read fails, the
\* reader's releaseLock has been called once, and the call fails with
\* "Request failed: <message of the read error>"; a reader is never released
\* twice.
C10_ReleasedOnce ==
  \A k \in DOMAIN calls :
    /\ calls[k].released <= calls[k].acquired
    /\ (calls[k].acquired = 1 /\ Failed(k))
         => /\ calls[k].cause \in ReadErrors
            /\ calls[k].released = 1
            /\ calls[k].error = <<"Request failed: ">> \o calls[k].cause

\* a read failed after a chunk had been appended, in full-response mode
C10_Witness ==
  \E k \in DOMAIN calls :
    /\ calls[k].mode = "complete" /\ calls[k].pc = "rejected"
    /\ calls[k].acquired = 1 /\ calls[k].recv # << >>

\* a request is issued by the invocation of consumer k in this step
Issues(k) == calls[k].req = << >> /\ calls'[k].req # << >>

\* C11: each attachment of a handler (then) issues one request, and each
\* iterator issues one request when it is first advanced: a request is issued
\* in exactly these steps, it is the attaching consumer's own, it is the one
\* the consumed result derived, and an invocation keeps its request until the
\* consumer lets go of it; nothing is shared between invocations.
C11_OneRequestEach ==
  [][\A k \in DOMAIN calls :
       /\ Issues(k) <=> (Then(k) \/ (calls[k].pc = "start" /\ FetchStreamNext(k)))
       /\ Then(k) => calls'[k].req = <<[url |-> result[1].url,
                                        method |-> result[1].method]>>
       /\ Issues(k) => \A j \in DOMAIN calls \ {k} : calls'[j] = calls[j]
       /\ calls[k].req # << >> => calls'[k].req \in {calls[k].req, << >>}]_vars

\* two handlers attached one after the other: two requests are in flight
C11_Witness ==
  /\ result # << >>
  /\ \A k \in DOMAIN calls :
       /\ calls[k].mode = "complete" /\ calls[k].pc = "fetch"
       /\ calls[k].req = <<[url |-> result[1].url, method |-> result[1].method]>>

\* C12: send() issues no request, and neither does obtaining an iterator: an
\* invocation has a request only once a handler was attached or the iterator
\* was advanced, and a stream that was never advanced has neither a response
\* nor an error (an error is thrown only out of an advancement).
C12_Lazy ==
  /\ [](\A k \in DOMAIN calls :
          /\ calls[k].pc \in {"idle", "start"}
               => calls[k].req = << >> /\ calls[k].status = 0 /\ calls[k].error = << >>
          /\ (calls[k].pc = "returned" /\ calls[k].yielded = << >>)
               => calls[k].req = << >> /\ calls[k].error = << >>
          /\ calls[k].pc = "thrown" => calls[k].req # << >>)
  /\ [][/\ Send => calls' = calls
        /\ \A k \in DOMAIN calls : AsyncIterator(k) => calls'[k].req = << >>]_vars

\* an iterator was obtained and closed without being advanced
C12_Witness ==
  \E k \in DOMAIN calls :
    /\ calls[k].mode = "stream" /\ calls[k].pc = "returned"
    /\ calls[k].req = << >> /\ result # << >> /\ result[1].consumed

\* C13, as stated: setRunId(id) overwrites the conversation id with id,
\* whatever it was, and the next send derives a continue-mode (PUT) request to
\* {baseUrl}/{agentId}/{id}; getRunId() is null on a fresh session.
C13_SetRunIdThenPut ==
  /\ runId = Null
  /\ [][\A id \in SetValues :
          SetRunId(id) => runId' = id /\ getRequestConfig' = ContinueRequest(id)]_vars

\* C13, amended: setRunId(id) overwrites the conversation id with id, whatever
\* it was; the next send derives a continue-mode (PUT) request to
\* {baseUrl}/{agentId}/{id} when id is a non-empty string, and a create-mode
\* (POST) request to {baseUrl}/{agentId} when id is the empty string;
\* getRunId() is null on a fresh session.
C13_SetRunIdOverwrites ==
  /\ runId = Null
  /\ [][\A id \in SetValues :
          SetRunId(id) => /\ runId' = id
                          /\ getRequestConfig' = IF id = Empty THEN CreateRequest
                                                 ELSE ContinueRequest(id)]_vars

\* setRunId has replaced the id the session had, and a send has followed
C13_Witness ==
  /\ runId = "run-2"
  /\ result # << >> /\ result[1].atSend = "run-2"
  /\ result[1].method = "PUT" /\ result[1].url = ContinueUrl("run-2")
  /\ \E k \in DOMAIN calls : calls[k].atSend = "run-1" /\ Success(k)

\* the config object the constructor worked with
ConfigUsed == IF env.configArg = << >> THEN DefaultConfig ELSE env.configArg[1]

\* the URL string s has the query parameter key=value
HasParam(s, key, value) ==
  \E i \in 1..Len(s) :
    /\ s[i] \in {"?", "&"}
    /\ IsPrefixAt(s, <<key, "=">> \o value, i + 1)
    /\ i + 3 + Len(value) <= Len(s) => s[i + 3 + Len(value)] = "&"

\* the URL string s has a query parameter named key
HasKey(s, key) ==
  \E i \in 1..Len(s) : s[i] \in {"?", "&"} /\ IsPrefixAt(s, <<key, "=">>, i + 1)

\* C14: each of the options env, toolhouse_id and bundle that the config has
\* is a query parameter of every request URL, create-mode and continue-mode
\* alike, and an option the config does not have is no parameter.
C14_OptionsAsParams ==
  \A k \in DOMAIN calls :
    Issued(k) =>
      \A o \in Options :
        IF o \in DOMAIN ConfigUsed
        THEN HasParam(Request(k).url, o, ConfigUsed[o])
        ELSE ~HasKey(Request(k).url, o)

\* C15: construction succeeds, and the base URL is
\* https://agents.toolhouse.ai whenever the caller supplies no baseUrl, be it
\* that no config is passed or that the config has other options only.
C15_DefaultBaseUrl ==
  /\ Constructed
  /\ (env.configArg = << >> \/ "baseUrl" \notin DOMAIN env.configArg[1])
       => baseUrl = DefaultBaseUrl

\* the URL string s without its query
RECURSIVE PathOf(_)
PathOf(s) ==
  IF s = << >> \/ Head(s) = "?" THEN << >> ELSE <<Head(s)>> \o PathOf(Tail(s))

\* C20: a session constructed with the agent's identifier prefixed by the
\* base URL issues the requests of a session constructed with the bare
\* identifier: create-mode to {baseUrl}/{bareId}, continue-mode to
\* {baseUrl}/{bareId}/{conversationId}; its agentId is the bare identifier.
C20_PrefixStripped ==
  env.agentIdArg = baseUrl \o <<"/">> \o AgentIdArg =>
    /\ agentId = AgentIdArg
    /\ \A k \in DOMAIN calls :
         Issued(k) =>
           PathOf(Request(k).url)
             = IF Request(k).method = "POST" THEN baseUrl \o <<"/">> \o AgentIdArg
               ELSE baseUrl \o <<"/">> \o AgentIdArg \o <<"/", calls[k].atSend>>

\* the response o arrives at the invocation of consumer k in this step
Receives(k, o) ==
  o.kind = "response" /\ (FetchCompleteFetched(k, o) \/ FetchStreamFetched(k, o))

\* C16: sends made while the conversation id is unset all issue create-mode
\* (POST) requests, and of the success responses that carry a run id the one
\* received first sets the conversation id: a response that finds it set
\* leaves it as it is.  Test and assignment happen in one step, so that no
\* other response comes between them.
C16_FirstResponseWins ==
  /\ [](\A k \in DOMAIN calls :
          (Issued(k) /\ Unset(calls[k].atSend)) => Request(k) = CreateRequest)
  /\ [][\A k \in DOMAIN calls :
          (calls[k].pc = "fetch" /\ calls'[k].pc # "fetch") =>
            \A o \in FetchOutcomes :
              Receives(k, o) =>
                runId' = IF Unset(runId) /\ o.status \in 200..299
                                         /\ o.header \in RunIds
                         THEN o.header ELSE runId]_vars

\* two create-mode requests were in flight; the response received first set
\* the conversation id, and the run id of the second has just been discarded
C16_Witness ==
  \E j, k \in DOMAIN calls :
    /\ j # k
    /\ calls[j].atSend = Null /\ calls[k].atSend = Null
    /\ Issued(j) /\ Issued(k)
    /\ Request(j) = CreateRequest /\ Request(k) = CreateRequest
    /\ calls[j].expect = runId /\ runId \in RunIds
    /\ calls[k].expect = Ignored

\* C17: in streaming mode a reader that was acquired is released once when
\* the sequence stops, by the end of the stream, by a failed read or by the
\* consumer closing the iterator after a fragment; it is not released while
\* the sequence goes on, and never twice.
C17_StreamReleases ==
  \A k \in DOMAIN calls :
    (calls[k].mode = "stream" /\ calls[k].acquired = 1)
      => /\ calls[k].pc \in {"done", "thrown", "returned"} => calls[k].released = 1
         /\ calls[k].pc \in {"read", "yieldChunk"} => calls[k].released = 0
         /\ calls[k].pc \in {"done", "thrown", "returned", "read", "yieldChunk"}

\* the consumer closed the iterator after the first fragment
C17_Witness ==
  \E k \in DOMAIN calls :
    /\ calls[k].mode = "stream" /\ calls[k].pc = "returned"
    /\ calls[k].acquired = 1 /\ Len(calls[k].yielded) = 1 /\ calls[k].released = 1

\* the invocation of consumer k fails in this step
Fails(k) ==
  calls[k].pc \notin {"rejected", "thrown"} /\ calls'[k].pc \in {"rejected", "thrown"}

\* C18: a failure of a send (fetch rejected, status outside [200, 300), read
\* failed) leaves the conversation id as it was, and when one was set the
\* next send derives a continue-mode (PUT) request to it.
C18_FailureKeepsRunId ==
  [][\A k \in DOMAIN calls :
       Fails(k) => /\ runId' = runId
                   /\ ~Unset(runId) => getRequestConfig' = ContinueRequest(runId)]_vars

\* a continue-mode request was answered with 404; the conversation id stands
C18_Witness ==
  \E k \in DOMAIN calls :
    /\ Failed(k) /\ calls[k].status = 404
    /\ calls[k].atSend = "run-1" /\ runId = "run-1"

\* C19: every fragment streaming mode delivers is a non-empty string, whether
\* or not the response has a streamable body.
C19_NonEmptyFragments ==
  \A k \in DOMAIN calls :
    \A i \in DOMAIN calls[k].yielded : calls[k].yielded[i] # << >>

\* the request _getRequestConfig derives when the conversation id is id
RequestFor(id) == IF Unset(id) THEN CreateRequest ELSE ContinueRequest(id)

\* C21: method and URL of a request are fixed when send() is called.  A
\* result object keeps them while the conversation id changes; a consumption
\* takes them from the result object it consumes; and the request an
\* invocation issues, at once or at the first advancement, is the one for the
\* conversation id of the time of its send, whatever the id is by then.
C21_FixedAtSend ==
  [][/\ (result # << >> /\ result' # << >> /\ runId' # runId)
          => /\ result'[1].url = result[1].url
             /\ result'[1].method = result[1].method
     /\ \A k \in DOMAIN calls :
          /\ (Then(k) \/ AsyncIterator(k))
               => /\ calls'[k].url = result[1].url
                  /\ calls'[k].method = result[1].method
                  /\ calls'[k].atSend = result[1].atSend
          /\ Issues(k) => calls'[k].req = <<RequestFor(calls'[k].atSend)>>]_vars

\* one result of a fresh session was consumed twice: two create-mode requests
\* were issued, and the conversation id has been set by the first response
C21_Witness ==
  /\ result # << >> /\ result[1].atSend = Null /\ result[1].consumed
  /\ runId \in RunIds
  /\ \E j, k \in DOMAIN calls :
       /\ j # k /\ Issued(j) /\ Issued(k)
       /\ Request(j) = CreateRequest /\ Request(k) = CreateRequest
       /\ calls[j].expect = runId /\ calls[k].status = 0

\* C22: in both modes the run id header counts only after the status check
\* and before the body is read.  A response with a status outside [200, 300)
\* leaves the conversation id as it is, whatever its header; and the run id a
\* success response set on an unset session is the conversation id from that
\* step on, before the first chunk and also when a read fails thereafter or
\* the consumer closes the iterator (until a caller overrides it by setRunId).
C22_HeaderAfterStatus ==
  /\ [](\A k \in DOMAIN calls : calls[k].expect \in RunIds => runId = calls[k].expect)
  /\ [][\A k \in DOMAIN calls :
          (calls[k].status = 0 /\ calls'[k].status \notin {0} \cup 200..299)
            => runId' = runId]_vars

\* a success response set the conversation id, and a read of its body failed
C22_Witness ==
  \E k \in DOMAIN calls :
    /\ calls[k].mode = "complete" /\ calls[k].pc = "rejected"
    /\ calls[k].cause \in ReadErrors /\ calls[k].acquired = 1
    /\ calls[k].atSend = Null /\ calls[k].expect = "run-1" /\ runId = "run-1"

\* C23: a conversation id that setRunId set to the empty string counts as
\* unset: a send derives a create-mode (POST) request to {baseUrl}/{agentId},
\* and the next success response with a non-empty run id header replaces it.
C23_EmptyIsUnset ==
  /\ [](/\ runId = Empty => getRequestConfig = CreateRequest
        /\ \A k \in DOMAIN calls :
             (Issued(k) /\ calls[k].atSend = Empty) => Request(k) = CreateRequest)
  /\ [][\A k \in DOMAIN calls :
          (runId = Empty /\ calls[k].pc = "fetch" /\ calls'[k].pc # "fetch") =>
            \A o \in FetchOutcomes :
              (Receives(k, o) /\ o.status \in 200..299 /\ o.header \in RunIds)
                => runId' = o.header]_vars

\* the send after setRunId("") was create-mode, and its response's run id
\* has replaced the empty string
C23_Witness ==
  \E k \in DOMAIN calls :
    /\ Issued(k) /\ calls[k].atSend = Empty /\ Request(k) = CreateRequest
    /\ calls[k].expect = "run-1" /\ runId = "run-1"

\* C24: over a fair transport every consumption finishes.  A promise
\* resolves or rejects; a stream that is advanced ends, throws or is closed;
\* after that no fragment is delivered; and a reader that was acquired has
\* been released by then.
C24_Terminates ==
  /\ \A k \in LiveConsumers :
       /\ (calls[k].mode = "complete") ~> (calls[k].pc \in {"resolved", "rejected"})
       /\ (calls[k].mode = "stream") ~> (calls[k].pc \in {"done", "thrown", "returned"})
  /\ [](\A k \in DOMAIN calls :
          (calls[k].pc \in Settled /\ calls[k].acquired = 1) => calls[k].released = 1)
  /\ [][\A k \in DOMAIN calls :
          calls[k].pc \in Settled =>
            calls'[k] = Idle \/ /\ calls'[k].yielded = calls[k].yielded
                                /\ calls'[k].value = calls[k].value
                                /\ calls'[k].pc = calls[k].pc]_vars

\* a promise has resolved with the text of a body of the most chunks, and its
\* reader is released
C24_Witness ==
  \E k \in DOMAIN calls :
    /\ calls[k].mode = "complete" /\ calls[k].pc = "resolved"
    /\ Len(calls[k].recv) = env.chunks /\ calls[k].released = 1

====
